---------------------------- MODULE Spec2Model ----------------------------
(***************************************************************************)
(* A model of ruff-sync (src/ruff_sync.py): the sync pipeline and the      *)
(* merge helpers, over an order-preserving tree model of TOML documents.   *)
(*                                                                         *)
(* A node is a record [kind, val, body]:                                   *)
(*   kind = "leaf"   a scalar, array or inline table (anything tomlkit     *)
(*                   does not class as Table / OutOfOrderTableProxy)       *)
(*   kind = "table"  a tomlkit Table; body is its ordered entries          *)
(*   kind = "ooo"    an OutOfOrderTableProxy (a table assembled from       *)
(*                   several disjoint declarations)                        *)
(*   kind = "absent" no node (Python None / a missing key)                 *)
(*   kind = "garbage" text that tomlkit.parse rejects                      *)
(* An entry of a body is [k |-> key, v |-> node].  A file's text is        *)
(* modelled by the document tomlkit.parse yields for it (or Garbage);      *)
(* tomlkit is an external library whose round trip is taken as given.      *)
(***************************************************************************)
EXTENDS Integers, Sequences, FiniteSets, TLC

\* ------------------------------------------------------------------ bounds
\* How many times sync is invoked on the same file in one behaviour.
MaxRuns == 2
\* The most children a generated lint table holds.
MaxKids == 2

\* ------------------------------------------------------------- tree model
Leaf(v) == [kind |-> "leaf", val |-> v, body |-> <<>>]
Tbl(b) == [kind |-> "table", val |-> "", body |-> b]
Ooo(b) == [kind |-> "ooo", val |-> "", body |-> b]
Absent == [kind |-> "absent", val |-> "", body |-> <<>>]
Garbage == [kind |-> "garbage", val |-> "", body |-> <<>>]
Entry(k, v) == [k |-> k, v |-> v]

Range(s) == {s[i] : i \in DOMAIN s}
KeysOf(b) == {b[i].k : i \in DOMAIN b}
Has(b, k) == k \in KeysOf(b)
IndexOf(b, k) == CHOOSE i \in DOMAIN b : b[i].k = k
\* Mapping.get(k): the node at k, or absent.
Get(b, k) == IF Has(b, k) THEN b[IndexOf(b, k)].v ELSE Absent
\* The keys of b in body order.
KeySeq(b) == [i \in DOMAIN b |-> b[i].k]

\* isinstance(value, (Table, OutOfOrderTableProxy))
IsTableLike(n) == n.kind \in {"table", "ooo"}
\* tomlkit's isinstance(v, (Table, AoT)) on a stored item
IsTableItem(n) == n.kind \in {"table", "ooo"}
\* Python truthiness: None, 0/""/[] and an empty table are falsy.
Truthy(n) ==
    CASE n.kind = "absent" -> FALSE
      [] n.kind = "leaf" -> n.val # "falsy"
      [] OTHER -> n.body # <<>>

InsertAt(b, i, e) == SubSeq(b, 1, i - 1) \o <<e>> \o SubSeq(b, i, Len(b))
RemoveAt(b, i) == SubSeq(b, 1, i - 1) \o SubSeq(b, i + 1, Len(b))
\* The index of the first table among b[from..], or Len(b) + 1.
FirstTableFrom(b, from) ==
    IF \E i \in from..Len(b) : IsTableItem(b[i].v)
    THEN CHOOSE i \in from..Len(b) :
            /\ IsTableItem(b[i].v)
            /\ \A j \in from..(i - 1) : ~IsTableItem(b[j].v)
    ELSE Len(b) + 1

\* Container.append of a new key: a table goes last, any other value goes
\* before the first table of the body.
ContainerAppend(b, k, v) ==
    IF IsTableItem(v) THEN b \o <<Entry(k, v)>>
    ELSE InsertAt(b, FirstTableFrom(b, 1), Entry(k, v))

\* (mutant) a replaced key is deleted and written anew at the end of the body.
ReplaceAtMove(b, i, k, v) == RemoveAt(b, i) \o <<Entry(k, v)>>

\* Container._replace_at: same kind of value keeps the slot; a table replaced
\* by a non-table (or the reverse) is removed and re-inserted before the next
\* table, or appended.
ReplaceAt(b, i, k, v) ==
    IF IsTableItem(v) = IsTableItem(b[i].v)
    THEN [b EXCEPT ![i] = Entry(k, v)]
    ELSE LET r == RemoveAt(b, i)
             j == FirstTableFrom(r, i)
         IN IF j <= Len(r) THEN InsertAt(r, j, Entry(k, v)) ELSE ContainerAppend(r, k, v)

\* table[k] = v on a tomlkit Table body.
SetItem(b, k, v) ==
    IF Has(b, k) THEN ReplaceAt(b, IndexOf(b, k), k, v) ELSE ContainerAppend(b, k, v)

\* doc["tool"]["ruff"] as the code reaches it (both levels tables).
ToolOf(doc) == Get(doc.body, "tool")
RuffOf(doc) == Get(ToolOf(doc).body, "ruff")
\* (mutant) only the tool.ruff section is kept in the document.
WithRuffBodyOnly(doc, rb) == Tbl(<<Entry("tool", Tbl(<<Entry("ruff", Tbl(rb))>>))>>)

\* The document with the table object at tool.ruff holding body rb: the code
\* mutates that object in place, so its slot and its siblings stay put.
WithRuffBody(doc, rb) ==
    LET ti == IndexOf(doc.body, "tool")
        tool == doc.body[ti].v
        ri == IndexOf(tool.body, "ruff")
    IN [doc EXCEPT !.body[ti].v.body[ri].v.body = rb]

\* ---------------------------------------------------------------- inputs
\* The values a key takes in the generated documents.
ValsOf(k) ==
    CASE k = "target-version" -> {"py38", "py39"}
      [] k = "select" -> {"E", "EF"}
      [] k = "ignore" -> {"W191"}
      [] k = "fixable" -> {"ALL"}
      [] k = "per-file-ignores" -> {"F401", "S101"}
\* per-file-ignores is a sub-table (one file pattern per value), the rest
\* are leaves.
KidNode(k, v) ==
    IF k = "per-file-ignores"
    THEN Tbl(<<Entry(IF v = "F401" THEN "__init__.py" ELSE "tests.py", Leaf(v))>>)
    ELSE Leaf(v)
\* The body holding the keys of f (a function key -> value) in `order`.
BodyOf(order, f) ==
    LET present == SelectSeq(order, LAMBDA k : k \in DOMAIN f)
    IN [i \in DOMAIN present |-> Entry(present[i], KidNode(present[i], f[present[i]]))]
\* Every body over at most maxKids of the keys of `order`.
Bodies(order, maxKids) ==
    LET keysets == {S \in SUBSET Range(order) : Cardinality(S) <= maxKids}
        assigns(S) == {f \in [S -> UNION {ValsOf(k) : k \in S}] :
                          \A k \in S : f[k] \in ValsOf(k)}
    IN {BodyOf(order, f) : f \in UNION {assigns(S) : S \in keysets}}

\* A tool.ruff body: an optional target-version, then an optional lint child.
RuffBody(tv, lint) ==
    (IF tv.kind = "absent" THEN <<>> ELSE <<Entry("target-version", tv)>>)
    \o (IF lint.kind = "absent" THEN <<>> ELSE <<Entry("lint", lint)>>)
TvChoices == {Absent} \cup {Leaf(v) : v \in ValsOf("target-version")}
\* A pyproject.toml: a [project] entry, then `tool` (absent, a scalar, or a
\* table holding black and then `ruff`).
MkDoc(tool) ==
    Tbl(<<Entry("project", Leaf("demo"))>>
        \o (IF tool.kind = "absent" THEN <<>> ELSE <<Entry("tool", tool)>>))
MkTool(black, ruff) ==
    Tbl(<<Entry("black", Leaf(black))>>
        \o (IF ruff.kind = "absent" THEN <<>> ELSE <<Entry("ruff", ruff)>>))

SyncLintKeys == <<"select", "ignore">>
SyncLocalRuffs ==
    {Tbl(RuffBody(tv, lint)) :
        tv \in TvChoices,
        lint \in {Absent, Leaf("E")}
                 \cup {Tbl(b) : b \in Bodies(SyncLintKeys, MaxKids)}}
SyncUpstreamRuffs ==
    {Tbl(RuffBody(tv, lint)) :
        tv \in TvChoices,
        lint \in {Absent, Leaf("E")}
                 \cup {Tbl(b) : b \in Bodies(SyncLintKeys, MaxKids)}
                 \cup {Ooo(b) : b \in Bodies(SyncLintKeys, MaxKids) \ {<<>>}}}
\* Documents whose tool.ruff is missing or not a table.
OddTools == {Absent, Leaf("x"), MkTool("b88", Absent), MkTool("b88", Leaf("x"))}
LocalFiles ==
    {Garbage} \cup {MkDoc(t) : t \in OddTools}
    \cup {MkDoc(MkTool("b88", r)) : r \in SyncLocalRuffs}
RemoteFiles ==
    {Garbage} \cup {MkDoc(t) : t \in OddTools \cup {MkTool("b100", Leaf("falsy"))}}
    \cup {MkDoc(MkTool("b100", r)) : r \in SyncUpstreamRuffs}
\* The arguments of the merge helpers when called directly.
LibLintKeys == <<"select", "ignore", "fixable", "per-file-ignores">>
LibLocalRuffs ==
    {Tbl(RuffBody(tv, lint)) :
        tv \in TvChoices,
        lint \in {Absent, Leaf("E")}
                 \cup {Tbl(b) : b \in Bodies(LibLintKeys, MaxKids)}}
LibUpstreamRuffs ==
    {Tbl(RuffBody(tv, lint)) :
        tv \in TvChoices,
        lint \in {Absent, Leaf("E")}
                 \cup {Tbl(b) : b \in Bodies(LibLintKeys, MaxKids)}
                 \cup {Ooo(b) : b \in Bodies(LibLintKeys, MaxKids) \ {<<>>}}}
LibLocalDocs ==
    {MkDoc(t) : t \in OddTools}
    \cup {MkDoc(MkTool("b88", r)) : r \in LibLocalRuffs}
\* An upstream document: as fetched, or reduced to tool.ruff (the shape
\* filter_extra_items returns), or empty.
LibUpstreamDocs ==
    {Tbl(<<>>)} \cup {MkDoc(t) : t \in OddTools \ {Absent}}
    \cup {MkDoc(MkTool("b100", r)) : r \in LibUpstreamRuffs}
    \cup {Tbl(<<Entry("tool", Tbl(<<Entry("ruff", r)>>))>>) : r \in LibUpstreamRuffs}
\* args.exclude
Excludes == SUBSET {"target-version", "lint"}

\* ------------------------------------------------------------------ state
VARIABLES
    pc,            \* where sync stands
    err,           \* the exception sync ended with, or "none"
    disk,          \* the local pyproject.toml on disk
    disk0,         \* history: the file when the current run started
    remote,        \* the file the upstream URL serves
    exclude,       \* args.exclude
    file_buffer,   \* the downloaded text
    upstream_doc,  \* tomlkit.parse(file_buffer)
    upsteam_ruff,  \* upstream_doc.get("tool", {}).get("ruff")
    source_doc,    \* the local document in memory
    trace,         \* history: the steps the current run has performed
    runs,          \* how many runs have started
    prevWrote,     \* history: the previous run wrote the file
    call,          \* the helper called directly, "none" before the call
    arg_src,       \* its destination argument as passed
    arg_up,        \* its upstream argument as passed
    out_src,       \* the destination argument's object after the call
    out_up,        \* the upstream argument's object after the call
    ret,           \* the value returned
    lerr,          \* the exception raised, or "none"
    arg_exclude,   \* the exclude / lint_exclude argument of the helper called
    create_if_missing  \* the flag passed to get_ruff_tool_table

syncVars == <<pc, err, disk, disk0, remote, exclude, file_buffer, upstream_doc,
              upsteam_ruff, source_doc, trace, runs, prevWrote>>
libVars == <<call, arg_src, arg_up, out_src, out_up, ret, lerr, arg_exclude,
             create_if_missing>>
vars == <<syncVars, libVars>>

InitSync ==
    /\ pc = "start"
    /\ err = "none"
    /\ disk \in LocalFiles
    /\ disk0 = disk
    /\ remote \in RemoteFiles
    /\ exclude \in Excludes
    /\ file_buffer = Absent
    /\ upstream_doc = Absent
    /\ upsteam_ruff = Absent
    /\ source_doc = Absent
    /\ trace = <<>>
    /\ runs = 1
    /\ prevWrote = FALSE
    /\ call = "n/a"
    /\ arg_src = Absent
    /\ arg_up = Absent
    /\ out_src = Absent
    /\ out_up = Absent
    /\ ret = Absent
    /\ lerr = "none"
    /\ arg_exclude = {}
    /\ create_if_missing = FALSE

\* The current run has replaced the file: the write step succeeded (the report
\* step is only attempted after it).
WroteFile == pc = "written" \/ "report" \in Range(trace)

\* sync raises e at the step named `step`.
Raise(step, e) ==
    /\ pc' = "failed"
    /\ err' = e
    /\ trace' = Append(trace, step)
Step(step, next) ==
    /\ pc' = next
    /\ trace' = Append(trace, step)
    /\ UNCHANGED err

\* (mutant) the download is issued before the path is looked at.
ResolveSourceFetchFirst ==
    /\ pc = "start"
    /\ file_buffer' = remote
    /\ \E exists \in BOOLEAN :
          IF exists THEN Step("resolve", "resolved")
          ELSE Raise("resolve", "FileNotFoundError")
    /\ UNCHANGED <<disk, disk0, remote, exclude, upstream_doc, upsteam_ruff,
                   source_doc, runs, prevWrote, libVars>>

\* Lines 275-279: the path (the file, or pyproject.toml in the directory) is
\* resolved strictly; a path that does not exist raises FileNotFoundError.
ResolveSource ==
    /\ pc = "start"
    /\ \E exists \in BOOLEAN :
          IF exists THEN Step("resolve", "resolved")
          ELSE Raise("resolve", "FileNotFoundError")
    /\ UNCHANGED <<disk, disk0, remote, exclude, file_buffer, upstream_doc,
                   upsteam_ruff, source_doc, runs, prevWrote, libVars>>

\* (mutant) a failed GET is tried again.
FetchUpstreamRetry ==
    /\ pc = "resolved" \/ (pc = "failed" /\ err = "TransportError")
    /\ \E outcome \in {"ok", "transport"} :
          IF outcome = "ok"
          THEN /\ pc' = "fetched"
               /\ err' = "none"
               /\ trace' = Append(trace, "fetch")
               /\ file_buffer' = remote
          ELSE Raise("fetch", "TransportError") /\ UNCHANGED file_buffer
    /\ UNCHANGED <<disk, disk0, remote, exclude, upstream_doc, upsteam_ruff,
                   source_doc, runs, prevWrote, libVars>>

\* Lines 284-286 and download(): one GET; a transport failure or a non-2xx
\* status raises, otherwise the body is kept.
FetchUpstream ==
    /\ pc = "resolved"
    /\ \E outcome \in {"ok", "transport", "status"} :
          CASE outcome = "ok" ->
                  /\ Step("fetch", "fetched")
                  /\ file_buffer' = remote
            [] outcome = "transport" ->
                  /\ Raise("fetch", "TransportError")
                  /\ UNCHANGED file_buffer
            [] outcome = "status" ->
                  /\ Raise("fetch", "HTTPStatusError")
                  /\ UNCHANGED file_buffer
    /\ UNCHANGED <<disk, disk0, remote, exclude, upstream_doc, upsteam_ruff,
                   source_doc, runs, prevWrote, libVars>>

\* Line 288.
ParseUpstream ==
    /\ pc = "fetched"
    /\ IF file_buffer.kind = "garbage"
       THEN Raise("parse", "ParseError") /\ UNCHANGED upstream_doc
       ELSE Step("parse", "parsed") /\ upstream_doc' = file_buffer
    /\ UNCHANGED <<disk, disk0, remote, exclude, file_buffer, upsteam_ruff,
                   source_doc, runs, prevWrote, libVars>>

\* (mutant) the section is looked up but never checked to be there.
UpstreamSectionNoCheck(doc) ==
    LET tool == ToolOf(doc)
    IN IF tool.kind = "leaf" THEN [err |-> "AttributeError", ruff |-> Absent]
       ELSE [err |-> "none", ruff |-> Get(tool.body, "ruff")]

\* Lines 289-291 on the parsed document: .get("tool", {}).get("ruff"); a
\* scalar `tool` has no .get; a missing or falsy section raises ValueError.
UpstreamSection(doc) ==
    LET tool == ToolOf(doc)
        ruff == Get(tool.body, "ruff")
    IN CASE tool.kind = "leaf" -> [err |-> "AttributeError", ruff |-> Absent]
         [] tool.kind # "leaf" /\ ~Truthy(ruff) -> [err |-> "ValueError", ruff |-> Absent]
         [] OTHER -> [err |-> "none", ruff |-> ruff]

LocateUpstream ==
    /\ pc = "parsed"
    /\ LET r == UpstreamSection(upstream_doc)
       IN IF r.err # "none"
          THEN Raise("locate_upstream", r.err) /\ UNCHANGED upsteam_ruff
          ELSE Step("locate_upstream", "located") /\ upsteam_ruff' = r.ruff
    /\ UNCHANGED <<disk, disk0, remote, exclude, file_buffer, upstream_doc,
                   source_doc, runs, prevWrote, libVars>>

\* Line 293: TOMLFile.read parses the file.
LoadLocal ==
    /\ pc = "located"
    /\ IF disk.kind = "garbage"
       THEN Raise("load_local", "ParseError") /\ UNCHANGED source_doc
       ELSE Step("load_local", "loaded") /\ source_doc' = disk
    /\ UNCHANGED <<disk, disk0, remote, exclude, file_buffer, upstream_doc,
                   upsteam_ruff, runs, prevWrote, libVars>>

\* Lines 294-295: source_doc["tool"]["ruff"]; a missing key raises KeyError,
\* indexing a scalar `tool` raises TypeError.  Nothing is created, and the
\* node found is not checked to be a table.
LocateLocal ==
    /\ pc = "loaded"
    /\ LET tool == ToolOf(source_doc)
       IN CASE tool.kind = "absent" -> Raise("locate_local", "KeyError")
            [] tool.kind = "leaf" -> Raise("locate_local", "TypeError")
            [] tool.kind = "table" /\ ~Has(tool.body, "ruff") ->
                  Raise("locate_local", "KeyError")
            [] OTHER -> Step("locate_local", "sectioned")
    /\ UNCHANGED <<disk, disk0, remote, exclude, file_buffer, upstream_doc,
                   upsteam_ruff, source_doc, runs, prevWrote, libVars>>

\* (mutant) the local section is replaced by the upstream one.
MergeSectionsReplace(src, ups, i) == ups

\* Lines 299-304, the loop body over upstream's entries from i on: a value
\* that is neither a Table nor an OutOfOrderTableProxy is assigned into the
\* local section; a table-like value is only logged.  args.exclude is not
\* consulted.
RECURSIVE MergeSections(_, _, _)
MergeSections(src, ups, i) ==
    IF i > Len(ups) THEN src
    ELSE MergeSections(IF ~IsTableLike(ups[i].v)
                       THEN SetItem(src, ups[i].k, ups[i].v)
                       ELSE src,
                       ups, i + 1)

\* Lines 299-304 on the located nodes: a scalar upstream section has no
\* .items(); a scalar local section takes no item assignment.
MergeStep ==
    /\ pc = "sectioned"
    /\ LET source_ruff == RuffOf(source_doc)
           assigns == \E i \in DOMAIN upsteam_ruff.body :
                          ~IsTableLike(upsteam_ruff.body[i].v)
       IN CASE upsteam_ruff.kind = "leaf" ->
                  Raise("merge", "AttributeError") /\ UNCHANGED source_doc
            [] upsteam_ruff.kind # "leaf" /\ source_ruff.kind = "leaf" /\ assigns ->
                  Raise("merge", "TypeError") /\ UNCHANGED source_doc
            [] upsteam_ruff.kind # "leaf" /\ source_ruff.kind = "leaf" /\ ~assigns ->
                  Step("merge", "merged") /\ UNCHANGED source_doc
            [] OTHER ->
                  /\ Step("merge", "merged")
                  /\ source_doc' = WithRuffBody(source_doc,
                        MergeSections(source_ruff.body, upsteam_ruff.body, 1))
    /\ UNCHANGED <<disk, disk0, remote, exclude, file_buffer, upstream_doc,
                   upsteam_ruff, runs, prevWrote, libVars>>

\* Line 306: TOMLFile.write replaces the file with the document; opening the
\* file for writing may be refused by the file system.
WriteBack ==
    /\ pc = "merged"
    /\ \E writable \in BOOLEAN :
          IF writable
          THEN Step("write", "written") /\ disk' = source_doc
          ELSE Raise("write", "OSError") /\ UNCHANGED disk
    /\ UNCHANGED <<disk0, remote, exclude, file_buffer, upstream_doc,
                   upsteam_ruff, source_doc, runs, prevWrote, libVars>>

\* Line 307: the path as given (not the resolved one) is printed relative to
\* the working directory; relative_to raises ValueError unless the given
\* path is an absolute path below it.
Report ==
    /\ pc = "written"
    /\ \E below_cwd \in BOOLEAN :
          IF below_cwd THEN Step("report", "done")
          ELSE Raise("report", "ValueError")
    /\ UNCHANGED <<disk, disk0, remote, exclude, file_buffer, upstream_doc,
                   upsteam_ruff, source_doc, runs, prevWrote, libVars>>

\* The invoker runs sync again on the same file against the same upstream
\* (main() is one-shot; nothing persists but the file).
RunAgain ==
    /\ pc \in {"done", "failed"}
    /\ runs < MaxRuns
    /\ pc' = "start"
    /\ err' = "none"
    /\ disk0' = disk
    /\ file_buffer' = Absent
    /\ upstream_doc' = Absent
    /\ upsteam_ruff' = Absent
    /\ source_doc' = Absent
    /\ trace' = <<>>
    /\ runs' = runs + 1
    /\ prevWrote' = WroteFile
    /\ UNCHANGED <<disk, remote, exclude, libVars>>

\* ------------------------------------------------------- merge helpers
\* The body with the table object at key k holding body cb (an in-place
\* mutation of that child).
SetChildBody(b, k, cb) == [b EXCEPT ![IndexOf(b, k)].v.body = cb]

\* Lines 219-222: the (key, sub_key, sub_value) triples the loops visit, in
\* order: the children of every OutOfOrderTableProxy value of upstream.
RECURSIVE DottedItems(_, _)
DottedItems(ups, i) ==
    IF i > Len(ups) THEN <<>>
    ELSE (IF ups[i].v.kind = "ooo"
          THEN [j \in DOMAIN ups[i].v.body |->
                    [key |-> ups[i].k, sub |-> ups[i].v.body[j].k,
                     v |-> ups[i].v.body[j].v]]
          ELSE <<>>)
         \o DottedItems(ups, i + 1)

\* to_update[key][sub_key] = value, with Python's failures: a missing key
\* raises KeyError, a scalar at key takes no item assignment.
AssignNested(st, key, sub, value) ==
    LET cur == Get(st.body, key)
    IN CASE cur.kind = "absent" -> [st EXCEPT !.err = "KeyError"]
         [] cur.kind = "leaf" -> [st EXCEPT !.err = "TypeError"]
         [] OTHER -> [st EXCEPT !.body = SetChildBody(st.body, key,
                                            SetItem(cur.body, sub, value))]

\* dotted_key_update[dotted_key] = sub_value on a plain dict (kept as a body
\* keyed by <<key, sub_key>>).
SetItemStaged(staged, dk, value) ==
    IF Has(staged, dk) THEN [staged EXCEPT ![IndexOf(staged, dk)].v = value]
    ELSE staged \o <<Entry(dk, value)>>

\* Lines 223-233 for one triple: a Table child is assigned into
\* to_update[key]; any other child is only looked up (a scalar at key has no
\* .get); either way the child is staged under its dotted key.
DottedVisit(st, it) ==
    LET after == IF it.v.kind = "table"
                 THEN AssignNested(st, it.key, it.sub, it.v)
                 ELSE IF Get(st.body, it.key).kind = "leaf"
                      THEN [st EXCEPT !.err = "AttributeError"]
                      ELSE st
    IN IF after.err # "none" THEN after
       ELSE [after EXCEPT !.staged =
                SetItemStaged(after.staged, <<it.key, it.sub>>, it.v)]

RECURSIVE DottedLoop(_, _, _)
DottedLoop(st, items, i) ==
    IF i > Len(items) \/ st.err # "none" THEN st
    ELSE DottedLoop(DottedVisit(st, items[i]), items, i + 1)

\* Lines 238-243: of the staged updates only lint.select and lint.ignore are
\* applied, each when truthy.
ApplyStaged(st, sub) ==
    LET v == Get(st.staged, <<"lint", sub>>)
    IN IF st.err # "none" \/ ~Truthy(v) THEN st
       ELSE AssignNested(st, "lint", sub, v)

\* _dotted_key_merge(source, upstream) on two table bodies: [body, err], the
\* body being that of to_update when the call returns or raises.  to_update
\* is a shallow copy whose own slots are never assigned, and the children it
\* mutates are shared with source, so source ends with the same content.
DottedKeyMerge(source, upstream) ==
    LET st0 == [body |-> source, staged |-> <<>>, err |-> "none"]
        st1 == DottedLoop(st0, DottedItems(upstream, 1), 1)
        st2 == ApplyStaged(st1, "select")
        st3 == ApplyStaged(st2, "ignore")
    IN [body |-> st3.body, err |-> st3.err]

\* source_tool.update(upstream_tool): every key of upstream_tool, in its
\* order, is assigned into source_tool.
RECURSIVE UpdateFrom(_, _, _)
UpdateFrom(dst, src, i) ==
    IF i > Len(src) THEN dst
    ELSE UpdateFrom(SetItem(dst, src[i].k, src[i].v), src, i + 1)

\* The document with its tool table holding body tb.
WithToolBody(doc, tb) == [doc EXCEPT !.body[IndexOf(doc.body, "tool")].v.body = tb]

\* merge_ruff_toml(source, filtered_upstream_doc): [src, up, err], the two
\* documents as they are when the call returns or raises.
MergeRuffToml(source, upstream) ==
    LET upstream_tool == ToolOf(upstream)
        source_tool == ToolOf(source)
        source_ruff == Get(source_tool.body, "ruff")
        upstream_ruff == Get(upstream_tool.body, "ruff")
        fail(e) == [src |-> source, up |-> upstream, err |-> e]
    IN CASE ~Truthy(upstream_tool) -> fail("none")
         [] Truthy(upstream_tool) /\ source_tool.kind = "absent" -> fail("KeyError")
         [] Truthy(upstream_tool) /\ source_tool.kind = "leaf" -> fail("TypeError")
         [] Truthy(upstream_tool) /\ source_tool.kind = "table"
               /\ source_ruff.kind = "absent" -> fail("KeyError")
         [] Truthy(upstream_tool) /\ source_tool.kind = "table"
               /\ source_ruff.kind # "absent" /\ upstream_tool.kind = "leaf" ->
               fail("TypeError")
         [] Truthy(upstream_tool) /\ source_tool.kind = "table"
               /\ source_ruff.kind # "absent" /\ upstream_tool.kind = "table"
               /\ upstream_ruff.kind = "absent" -> fail("KeyError")
         [] Truthy(upstream_tool) /\ source_tool.kind = "table"
               /\ source_ruff.kind # "absent" /\ upstream_tool.kind = "table"
               /\ upstream_ruff.kind # "absent"
               /\ (source_ruff.kind = "leaf" \/ upstream_ruff.kind = "leaf") ->
               fail("AttributeError")
         [] OTHER ->
               LET m == DottedKeyMerge(source_ruff.body, upstream_ruff.body)
                   src1 == WithRuffBody(source, m.body)
                   merged_ruff == Tbl(m.body)
                   up_tool1 == SetItem(upstream_tool.body, "ruff", merged_ruff)
               IN IF m.err # "none"
                  THEN [src |-> src1, up |-> upstream, err |-> m.err]
                  ELSE [src |-> WithToolBody(src1,
                                   UpdateFrom(ToolOf(src1).body, up_tool1, 1)),
                        up |-> WithToolBody(upstream, up_tool1),
                        err |-> "none"]

InitLib ==
    /\ pc = "idle"
    /\ err = "none"
    /\ disk = Absent
    /\ disk0 = Absent
    /\ remote = Absent
    /\ exclude = {}
    /\ file_buffer = Absent
    /\ upstream_doc = Absent
    /\ upsteam_ruff = Absent
    /\ source_doc = Absent
    /\ trace = <<>>
    /\ runs = 1
    /\ prevWrote = FALSE
    /\ call = "none"
    /\ arg_src \in LibLocalDocs
    /\ arg_up \in LibUpstreamDocs
    /\ out_src = Absent
    /\ out_up = Absent
    /\ ret = Absent
    /\ lerr = "none"
    /\ arg_exclude = {}
    /\ create_if_missing = FALSE

\* merge_ruff_toml(arg_src, arg_up); it returns its first argument.
CallMergeRuffToml ==
    /\ call = "none"
    /\ arg_up # Absent
    /\ LET r == MergeRuffToml(arg_src, arg_up)
       IN /\ out_src' = r.src
          /\ out_up' = r.up
          /\ lerr' = r.err
          /\ ret' = IF r.err = "none" THEN r.src ELSE Absent
    /\ call' = "merge_ruff_toml"
    /\ UNCHANGED <<syncVars, arg_src, arg_up, arg_exclude, create_if_missing>>

\* _dotted_key_merge on the two tool.ruff tables of the documents (its
\* parameters are Tables).
CallDottedKeyMerge ==
    /\ call = "none"
    /\ arg_up # Absent
    /\ RuffOf(arg_src).kind = "table"
    /\ RuffOf(arg_up).kind = "table"
    /\ LET r == DottedKeyMerge(RuffOf(arg_src).body, RuffOf(arg_up).body)
       IN /\ out_src' = WithRuffBody(arg_src, r.body)
          /\ lerr' = r.err
          /\ ret' = IF r.err = "none" THEN Tbl(r.body) ELSE Absent
    /\ out_up' = arg_up
    /\ call' = "_dotted_key_merge"
    /\ UNCHANGED <<syncVars, arg_src, arg_up, arg_exclude, create_if_missing>>

\* ------------------------------------------------ one-document helpers
\* The toml argument of the helpers that take one document: the local
\* documents, and documents whose tool.ruff was declared in disjoint places
\* (an OutOfOrderTableProxy) or holds an out-of-order lint.
UnaryRuffs ==
    LibUpstreamRuffs
    \cup ({Ooo(RuffBody(tv, lint)) :
              tv \in TvChoices,
              lint \in {Absent, Tbl(<<Entry("select", Leaf("E"))>>)}} \ {Ooo(<<>>)})
UnaryDocs ==
    {Garbage} \cup {MkDoc(t) : t \in OddTools}
    \cup {MkDoc(MkTool("b88", r)) : r \in UnaryRuffs}
\* The exclusions passed to the lint filters (line-length is in no document)
\* and to get_ruff_tool_table.
LintExcludes == SUBSET {"select", "per-file-ignores", "line-length"}
SectionExcludes == SUBSET {"target-version", "line-length"}

\* Mapping.pop(k, None): the body without key k.
Pop(b, k) == SelectSeq(b, LAMBDA e : e.k # k)
\* (mutant) nothing is popped.
PopAllKeep(b, excl) == b
\* for section in exclude: table.pop(section, None)
RECURSIVE PopAll(_, _)
PopAll(b, excl) ==
    IF excl = {} THEN b
    ELSE LET k == CHOOSE k \in excl : TRUE
         IN PopAll(Pop(b, k), excl \ {k})
\* The section with its lint child (one object, mutated in place) holding lb.
WithLintBody(ruff, lb) == [ruff EXCEPT !.body[IndexOf(ruff.body, "lint")].v.body = lb]

\* toml_ruff_parse(toml_s, exclude): [ret, err].  Lines 206-210: the section
\* is indexed (a missing key raises KeyError, a scalar takes no string
\* index); each excluded key is popped from section["lint"].
TomlRuffParse(toml_s, excl) ==
    LET tool == ToolOf(toml_s)
        ruff_toml == Get(tool.body, "ruff")
        lint == Get(ruff_toml.body, "lint")
        fail(e) == [ret |-> Absent, err |-> e]
    IN IF toml_s.kind = "garbage" THEN fail("ParseError")
       ELSE IF tool.kind = "absent" THEN fail("KeyError")
       ELSE IF tool.kind = "leaf" THEN fail("TypeError")
       ELSE IF ruff_toml.kind = "absent" THEN fail("KeyError")
       ELSE IF excl = {} THEN [ret |-> ruff_toml, err |-> "none"]
       ELSE IF ruff_toml.kind = "leaf" THEN fail("TypeError")
       ELSE IF lint.kind = "absent" THEN fail("KeyError")
       ELSE IF lint.kind = "leaf" THEN fail("AttributeError")
       ELSE [ret |-> WithLintBody(ruff_toml, PopAll(lint.body, excl)), err |-> "none"]

\* The document filter_extra_items builds: tool.ruff and nothing else.
FilteredDoc(ruff) == Tbl(<<Entry("tool", Tbl(<<Entry("ruff", ruff)>>))>>)

\* filter_extra_items(toml, lint_exclude): [ret, doc, err], doc being the
\* argument after the call.  Lines 183-201: a missing or falsy section gives
\* the empty document; with a non-empty lint_exclude a missing or falsy lint
\* raises KeyError, otherwise each excluded key is popped from lint (in the
\* argument's own tree); the section is then wrapped in a fresh document.
FilterExtraItems(toml, lint_exclude) ==
    LET tool == ToolOf(toml)
        ruff == Get(tool.body, "ruff")
        ruff_lint == Get(ruff.body, "lint")
        fail(e) == [ret |-> Absent, doc |-> toml, err |-> e]
    IN IF toml.kind = "garbage" THEN fail("ParseError")
       ELSE IF tool.kind = "leaf" THEN fail("AttributeError")
       ELSE IF ~Truthy(ruff) THEN [ret |-> Tbl(<<>>), doc |-> toml, err |-> "none"]
       ELSE IF lint_exclude = {}
            THEN [ret |-> FilteredDoc(ruff), doc |-> toml, err |-> "none"]
       ELSE IF ruff.kind = "leaf" THEN fail("AttributeError")
       ELSE IF ~Truthy(ruff_lint) THEN fail("KeyError")
       ELSE IF ruff_lint.kind = "leaf" THEN fail("AttributeError")
       ELSE LET ruff1 == WithLintBody(ruff, PopAll(ruff_lint.body, lint_exclude))
            IN [ret |-> FilteredDoc(ruff1),
                doc |-> WithRuffBody(toml, ruff1.body),
                err |-> "none"]

\* (mutant) the new children go ahead of the ones `tool` already has.
AppendToolFirst(body, item, adjacent) ==
    IF Has(body, "tool")
    THEN [body EXCEPT ![IndexOf(body, "tool")].v.body = item.body \o @]
    ELSE ContainerAppend(body, "tool", item)
\* doc.append("tool", item) with a fresh implicit table holding `ruff`
\* (lines 158-161).  Without a `tool` key the table goes to the end of the
\* document.  With one (a table lacking `ruff`), tomlkit folds the new table
\* into it: merged into the existing table when that one is implicit and the
\* last table of the document (`adjacent`), kept as a second declaration
\* otherwise, which makes doc["tool"] an OutOfOrderTableProxy; either way
\* the mapping keeps one `tool` key whose children are the old ones and then
\* the new.
AppendTool(body, item, adjacent) ==
    IF Has(body, "tool")
    THEN LET i == IndexOf(body, "tool")
         IN [body EXCEPT ![i].v = [kind |-> IF adjacent THEN "table" ELSE "ooo",
                                    val |-> "",
                                    body |-> body[i].v.body \o item.body]]
    ELSE ContainerAppend(body, "tool", item)

\* get_ruff_tool_table(toml, create_if_missing, exclude): [ret, doc, err],
\* doc being the argument after the call.  Lines 150-168: doc["tool"]["ruff"]
\* (a scalar `tool` takes no string index: TypeError, not caught); on
\* KeyError either None is returned or the section is created; a section
\* that is not a Table raises TypeError; the excluded keys present in the
\* section are popped from it.
GetRuffToolTable(toml, create, excl, adjacent) ==
    LET tool == ToolOf(toml)
        found == tool.kind # "absent" /\ Has(tool.body, "ruff")
        doc1 == IF found THEN toml
                ELSE [toml EXCEPT !.body =
                        AppendTool(toml.body, Tbl(<<Entry("ruff", Tbl(<<>>))>>), adjacent)]
        ruff == RuffOf(doc1)
        fail(d, e) == [ret |-> Absent, doc |-> d, err |-> e]
    IN IF toml.kind = "garbage" THEN fail(toml, "ParseError")
       ELSE IF tool.kind = "leaf" THEN fail(toml, "TypeError")
       ELSE IF ~found /\ ~create THEN [ret |-> Absent, doc |-> toml, err |-> "none"]
       ELSE IF ruff.kind # "table" THEN fail(doc1, "TypeError")
       ELSE LET ruff1 == Tbl(PopAll(ruff.body, excl))
            IN [ret |-> ruff1, doc |-> WithRuffBody(doc1, ruff1.body), err |-> "none"]

InitUnary ==
    /\ pc = "idle"
    /\ err = "none"
    /\ disk = Absent
    /\ disk0 = Absent
    /\ remote = Absent
    /\ exclude = {}
    /\ file_buffer = Absent
    /\ upstream_doc = Absent
    /\ upsteam_ruff = Absent
    /\ source_doc = Absent
    /\ trace = <<>>
    /\ runs = 1
    /\ prevWrote = FALSE
    /\ call = "none"
    /\ arg_src \in UnaryDocs
    /\ arg_up = Absent
    /\ out_src = Absent
    /\ out_up = Absent
    /\ ret = Absent
    /\ lerr = "none"
    /\ arg_exclude = {}
    /\ create_if_missing = FALSE

\* toml_ruff_parse(arg_src, excl); it parses its own copy of the text.
CallTomlRuffParse ==
    /\ call = "none"
    /\ arg_up = Absent
    /\ \E excl \in LintExcludes :
          LET r == TomlRuffParse(arg_src, excl)
          IN /\ ret' = r.ret
             /\ lerr' = r.err
             /\ arg_exclude' = excl
    /\ out_src' = arg_src
    /\ call' = "toml_ruff_parse"
    /\ UNCHANGED <<syncVars, arg_src, arg_up, out_up, create_if_missing>>

\* filter_extra_items(arg_src, excl) on a parsed document.
CallFilterExtraItems ==
    /\ call = "none"
    /\ arg_up = Absent
    /\ \E excl \in LintExcludes :
          LET r == FilterExtraItems(arg_src, excl)
          IN /\ ret' = r.ret
             /\ out_src' = r.doc
             /\ lerr' = r.err
             /\ arg_exclude' = excl
    /\ call' = "filter_extra_items"
    /\ UNCHANGED <<syncVars, arg_src, arg_up, out_up, create_if_missing>>

\* get_ruff_tool_table(arg_src, create, excl) on a parsed document.
CallGetRuffToolTable ==
    /\ call = "none"
    /\ arg_up = Absent
    /\ \E create \in BOOLEAN, excl \in SectionExcludes, adjacent \in BOOLEAN :
          LET r == GetRuffToolTable(arg_src, create, excl, adjacent)
          IN /\ ret' = r.ret
             /\ out_src' = r.doc
             /\ lerr' = r.err
             /\ arg_exclude' = excl
             /\ create_if_missing' = create
    /\ call' = "get_ruff_tool_table"
    /\ UNCHANGED <<syncVars, arg_src, arg_up, out_up>>

Init == InitSync \/ InitLib \/ InitUnary

Next ==
    \/ ResolveSource
    \/ FetchUpstream
    \/ ParseUpstream
    \/ LocateUpstream
    \/ LoadLocal
    \/ LocateLocal
    \/ MergeStep
    \/ WriteBack
    \/ Report
    \/ RunAgain
    \/ CallMergeRuffToml
    \/ CallDottedKeyMerge
    \/ CallTomlRuffParse
    \/ CallFilterExtraItems
    \/ CallGetRuffToolTable

Spec == Init /\ [][Next]_vars

\* ----------------------------------------------------- notions for claims
\* The leaves below a body, each with its path of keys from `prefix`.
RECURSIVE LeavesOf(_, _)
LeavesOf(b, prefix) ==
    UNION {IF b[i].v.kind = "leaf"
           THEN {<<Append(prefix, b[i].k), b[i].v.val>>}
           ELSE LeavesOf(b[i].v.body, Append(prefix, b[i].k)) : i \in DOMAIN b}
\* The path of every node below a body.
RECURSIVE PathsOf(_, _)
PathsOf(b, prefix) ==
    UNION {{Append(prefix, b[i].k)} \cup PathsOf(b[i].v.body, Append(prefix, b[i].k)) :
              i \in DOMAIN b}
\* The node at a path below a body, or Absent.
RECURSIVE NodeAt(_, _)
NodeAt(b, p) ==
    IF Len(p) = 1 THEN Get(b, p[1]) ELSE NodeAt(Get(b, p[1]).body, Tail(p))

\* The merge loop of the current run has run to its end.
Merged == pc \in {"merged", "written", "done"} \/ "write" \in Range(trace)
\* The local section the run started from and the one it holds in memory.
LocalRuff0 == RuffOf(disk0)
LocalRuff == RuffOf(source_doc)

\* C1: a run of sync that ends in a failure leaves the local file exactly as
\* it was when the run started (no failure after the write).
C1_FailureLeavesFile == pc = "failed" => disk = disk0

\* C2: when the fetched upstream document has no tool.ruff section (no
\* `tool`, or a `tool` table without `ruff`), sync ends with the
\* missing-section ValueError, not a fetch error, right at the locate step:
\* the local document is never loaded, merged or written.
NoUpstreamSection(doc) ==
    /\ doc.kind = "table"
    /\ \/ ToolOf(doc).kind = "absent"
       \/ ToolOf(doc).kind = "table" /\ ~Has(ToolOf(doc).body, "ruff")
C2_MissingSection ==
    (NoUpstreamSection(upstream_doc) /\ pc # "parsed") =>
        /\ pc = "failed"
        /\ err = "ValueError"
        /\ trace = <<"resolve", "fetch", "parse", "locate_upstream">>
        /\ source_doc = Absent
        /\ disk = disk0
C2_Witness ==
    /\ NoUpstreamSection(upstream_doc)
    /\ pc = "failed"
    /\ err = "ValueError"
    /\ RuffOf(disk).kind = "table"

\* C3: after the merge, every direct child K of the upstream section that is
\* excluded is as it was in the local section (absent, or the local value),
\* and every K that is not excluded is in the local section with upstream's
\* value.
C3_Exclusion ==
    (Merged /\ LocalRuff0.kind = "table") =>
        \A i \in DOMAIN upsteam_ruff.body :
            LET K == upsteam_ruff.body[i].k
            IN IF K \in exclude
               THEN Get(LocalRuff.body, K) = Get(LocalRuff0.body, K)
               ELSE LeavesOf(<<Entry(K, Get(LocalRuff.body, K))>>, <<>>)
                    = LeavesOf(<<upsteam_ruff.body[i]>>, <<>>)

\* C4: tables present on both sides are merged recursively: every leaf in an
\* upstream sub-table is at the same path of the local section after the
\* merge, and the scenario {target-version="py38", lint.select=["E"]} merged
\* with {target-version="py39", lint.select=["E","F"], lint.ignore=["W191"]}
\* (no exclusions) gives the upstream content.
C4_Local ==
    <<Entry("target-version", Leaf("py38")),
      Entry("lint", Tbl(<<Entry("select", Leaf("E"))>>))>>
C4_Upstream ==
    <<Entry("target-version", Leaf("py39")),
      Entry("lint", Tbl(<<Entry("select", Leaf("EF")), Entry("ignore", Leaf("W191"))>>))>>
C4_NestedMerge ==
    (Merged /\ LocalRuff0.kind = "table" /\ exclude = {}) =>
        /\ \A i \in DOMAIN upsteam_ruff.body :
              upsteam_ruff.body[i].v.kind = "table" =>
                 LeavesOf(<<upsteam_ruff.body[i]>>, <<>>) \subseteq LeavesOf(LocalRuff.body, <<>>)
        /\ (LocalRuff0.body = C4_Local /\ upsteam_ruff.body = C4_Upstream) =>
              LeavesOf(LocalRuff.body, <<>>) = LeavesOf(C4_Upstream, <<>>)

\* C5: a merge never removes a key: the key set of the local tool.ruff
\* section after a merge by sync (in memory and on disk) or by
\* merge_ruff_toml, and of every sub-table the merge recursed into, includes
\* its key set before the merge.
KeysKept(before, after, ups) ==
    /\ KeysOf(before) \subseteq KeysOf(after)
    /\ \A k \in KeysOf(before) :
          (/\ Get(before, k).kind = "table"
           /\ Get(after, k).kind = "table"
           /\ IsTableLike(Get(ups, k))) =>
             KeysOf(Get(before, k).body) \subseteq KeysOf(Get(after, k).body)
C5_KeySuperset ==
    /\ (Merged /\ LocalRuff0.kind = "table") =>
          KeysKept(LocalRuff0.body, LocalRuff.body, upsteam_ruff.body)
    /\ (WroteFile /\ LocalRuff0.kind = "table") =>
          KeysKept(LocalRuff0.body, RuffOf(disk).body, upsteam_ruff.body)
    /\ (call = "merge_ruff_toml" /\ RuffOf(arg_src).kind = "table") =>
          KeysKept(RuffOf(arg_src).body, RuffOf(out_src).body, RuffOf(arg_up).body)
C5_Witness ==
    /\ pc = "done"
    /\ LocalRuff0.kind = "table"
    /\ KeysOf(LocalRuff0.body) \ KeysOf(upsteam_ruff.body) # {}
    /\ KeysOf(RuffOf(disk).body) \ KeysOf(LocalRuff0.body) # {}

\* C6: sync is idempotent: with an upstream section equal to the local one
\* the local document, in memory and on disk, stays equal to the original
\* (entries, values and order); and a run that follows a run which wrote the
\* file, against the same upstream, leaves the file as that run left it.
C6_Idempotent ==
    /\ (Merged /\ LocalRuff0.kind = "table" /\ upsteam_ruff = LocalRuff0) =>
          (source_doc = disk0 /\ disk = disk0)
    /\ (runs > 1 /\ prevWrote) =>
          (disk = disk0 /\ (Merged => source_doc = disk0))
C6_Witness ==
    /\ runs = 2
    /\ prevWrote
    /\ pc = "done"
    /\ \E i \in DOMAIN upsteam_ruff.body : upsteam_ruff.body[i].v.kind = "leaf"
    /\ upsteam_ruff # LocalRuff0

\* C7 (as claimed): once sync has written, every top-level entry other than
\* `tool`, every sibling of `ruff` under `tool`, and every key of the local
\* section, at any depth, whose path is absent from the upstream section has
\* the value it had, and such keys keep their order.
FrameOutside(d0, d1) ==
    /\ KeySeq(d1.body) = KeySeq(d0.body)
    /\ \A k \in KeysOf(d0.body) \ {"tool"} : Get(d1.body, k) = Get(d0.body, k)
    /\ KeySeq(ToolOf(d1).body) = KeySeq(ToolOf(d0).body)
    /\ \A k \in KeysOf(ToolOf(d0).body) \ {"ruff"} :
          Get(ToolOf(d1).body, k) = Get(ToolOf(d0).body, k)
\* The keys of body b (at path t) that upstream does not mention, in order.
Unmentioned(b, t, known, ups) ==
    SelectSeq(KeySeq(b), LAMBDA k : k \in known /\ Append(t, k) \notin PathsOf(ups, <<>>))
\* Path p lies below a key that upstream holds as a non-table value.
Overridden(p, ups) ==
    \E n \in 1..(Len(p) - 1) : NodeAt(ups, SubSeq(p, 1, n)).kind = "leaf"
FrameSection(r0, r1, ups, paths) ==
    /\ \A p \in paths : NodeAt(r1, p) = NodeAt(r0, p)
    /\ Unmentioned(r1, <<>>, KeysOf(r0), ups) = Unmentioned(r0, <<>>, KeysOf(r0), ups)
    /\ \A t \in paths :
          NodeAt(r0, t).kind = "table" =>
             Unmentioned(NodeAt(r1, t).body, t, KeysOf(NodeAt(r0, t).body), ups)
             = Unmentioned(NodeAt(r0, t).body, t, KeysOf(NodeAt(r0, t).body), ups)
C7_FrameAsClaimed ==
    (WroteFile /\ LocalRuff0.kind = "table") =>
        /\ FrameOutside(disk0, disk)
        /\ FrameSection(LocalRuff0.body, RuffOf(disk).body, upsteam_ruff.body,
                        PathsOf(LocalRuff0.body, <<>>) \ PathsOf(upsteam_ruff.body, <<>>))

\* C7 (amended): the same, except for the keys that lie below a local table
\* which upstream holds as a non-table value: that table is overwritten
\* whole.
C7_Frame ==
    (WroteFile /\ LocalRuff0.kind = "table") =>
        /\ FrameOutside(disk0, disk)
        /\ FrameSection(LocalRuff0.body, RuffOf(disk).body, upsteam_ruff.body,
                        {p \in PathsOf(LocalRuff0.body, <<>>) \ PathsOf(upsteam_ruff.body, <<>>) :
                            ~Overridden(p, upsteam_ruff.body)})
C7_Witness ==
    /\ pc = "done"
    /\ disk # disk0
    /\ \E p \in PathsOf(LocalRuff0.body, <<>>) \ PathsOf(upsteam_ruff.body, <<>>) :
          Len(p) = 2 /\ ~Overridden(p, upsteam_ruff.body)
    /\ KeysOf(LocalRuff0.body) \ KeysOf(upsteam_ruff.body) # {}

\* C8: a merge never mutates its upstream argument: after merge_ruff_toml and
\* after _dotted_key_merge the upstream document is as it was passed.
C8_UpstreamUntouched ==
    call \in {"merge_ruff_toml", "_dotted_key_merge"} => out_up = arg_up

\* C9: every leaf below an out-of-order table of the upstream section is at
\* the same path of the local section after the merge, by sync and by the
\* merge helpers, whatever the keys are called.
OooLeaves(b) ==
    UNION {IF b[i].v.kind = "ooo" THEN LeavesOf(<<b[i]>>, <<>>) ELSE {} : i \in DOMAIN b}
C9_OutOfOrderLossless ==
    /\ (Merged /\ LocalRuff0.kind = "table") =>
          OooLeaves(upsteam_ruff.body) \subseteq LeavesOf(LocalRuff.body, <<>>)
    /\ (/\ call \in {"merge_ruff_toml", "_dotted_key_merge"}
        /\ lerr = "none"
        /\ RuffOf(arg_src).kind = "table"
        /\ RuffOf(arg_up).kind = "table") =>
          OooLeaves(RuffOf(arg_up).body) \subseteq LeavesOf(RuffOf(out_src).body, <<>>)

\* C10: a run performs its steps in one fixed order, each at most once:
\* nothing is retried, the local file is read once, and it is written at
\* most once, only after every earlier step has succeeded; the file changes
\* by the write alone.
StepOrder ==
    <<"resolve", "fetch", "parse", "locate_upstream", "load_local",
      "locate_local", "merge", "write", "report">>
C11_UpstreamKeysPresent ==
    (/\ call = "merge_ruff_toml"
     /\ lerr = "none"
     /\ RuffOf(arg_src).kind = "table"
     /\ ToolOf(arg_up).kind = "table"
     /\ RuffOf(arg_up).kind = "table") =>
        KeysOf(RuffOf(arg_up).body) \subseteq KeysOf(RuffOf(out_src).body)

\* C12: the lint exclusion filters remove exactly the excluded keys: when
\* toml_ruff_parse or filter_extra_items returns for a document whose
\* tool.ruff holds a lint table, the lint table of the result has no key of
\* the exclusion set and every other key of the original lint table (for the
\* empty set and for keys that are not there too).
LintArg == Get(RuffOf(arg_src).body, "lint")
LintRet ==
    IF call = "toml_ruff_parse" THEN Get(ret.body, "lint")
    ELSE NodeAt(ret.body, <<"tool", "ruff", "lint">>)
C12_ExactExclusion ==
    (/\ call \in {"toml_ruff_parse", "filter_extra_items"}
     /\ lerr = "none"
     /\ IsTableLike(RuffOf(arg_src))
     /\ IsTableLike(LintArg)) =>
        /\ IsTableLike(LintRet)
        /\ KeysOf(LintRet.body) \cap arg_exclude = {}
        /\ KeysOf(LintArg.body) \ arg_exclude \subseteq KeysOf(LintRet.body)
        /\ KeysOf(LintRet.body) \subseteq KeysOf(LintArg.body)
C12_Witness ==
    /\ call = "filter_extra_items"
    /\ lerr = "none"
    /\ IsTableLike(LintArg)
    /\ KeysOf(LintArg.body) \cap arg_exclude # {}
    /\ KeysOf(LintArg.body) \ arg_exclude # {}
    /\ arg_exclude \ KeysOf(LintArg.body) # {}

\* C13: get_ruff_tool_table on a document whose `tool` and tool.ruff, where
\* present, are tables (in order or out of order): with create_if_missing it
\* returns a table that is reachable as tool.ruff of the document, an empty
\* one when the section was missing; without it, when `tool` or `ruff` is
\* missing, it returns absent and leaves the document unchanged.
HasSection(doc) == ToolOf(doc).kind # "absent" /\ Has(ToolOf(doc).body, "ruff")
TablesOnly(doc) ==
    /\ doc.kind = "table"
    /\ ToolOf(doc).kind # "leaf"
    /\ RuffOf(doc).kind # "leaf"
C13_LocateOrCreate ==
    (call = "get_ruff_tool_table" /\ TablesOnly(arg_src)) =>
        /\ create_if_missing =>
              /\ lerr = "none"
              /\ ret.kind = "table"
              /\ RuffOf(out_src) = ret
              /\ ~HasSection(arg_src) => ret = Tbl(<<>>)
        /\ (~create_if_missing /\ ~HasSection(arg_src)) =>
              /\ lerr = "none"
              /\ ret = Absent
              /\ out_src = arg_src

\* C14: when the local document has no tool.ruff section (no `tool`, or a
\* `tool` table without `ruff`) and sync has got past reading it, sync has
\* failed with the tool's own RuffSyncError.
NoLocalSection ==
    /\ source_doc.kind = "table"
    /\ ~HasSection(source_doc)
    /\ ToolOf(source_doc).kind # "leaf"
C14_MissingLocalSection ==
    (NoLocalSection /\ pc # "loaded") => (pc = "failed" /\ err = "RuffSyncError")

\* C15: when the node at `tool` or at tool.ruff exists but is not a table (a
\* scalar), locating the section fails with the type-mismatch TypeError, the
\* node is not returned and the document is not changed: for
\* get_ruff_tool_table, and for the local section inside sync, which then
\* fails at its locate step with the file untouched.
ScalarSection(doc) ==
    /\ doc.kind = "table"
    /\ ToolOf(doc).kind = "leaf" \/ RuffOf(doc).kind = "leaf"
C15_TypeMismatch ==
    /\ (call = "get_ruff_tool_table" /\ ScalarSection(arg_src)) =>
          /\ lerr = "TypeError"
          /\ ret = Absent
          /\ out_src = arg_src
    /\ (ScalarSection(source_doc) /\ pc # "loaded") =>
          /\ pc = "failed"
          /\ err = "TypeError"
          /\ trace[Len(trace)] = "locate_local"
          /\ disk = disk0

\* C16: across a get_ruff_tool_table call with create_if_missing that
\* returns, keys stay unique within every table of the document and the
\* entries already there keep their order; for a document with a `tool` table
\* lacking `ruff`, the root still has one `tool` key, its old children are
\* where they were, and `ruff` is its last child.
RECURSIVE UniqueKeys(_)
UniqueKeys(b) ==
    /\ \A i, j \in DOMAIN b : b[i].k = b[j].k => i = j
    /\ \A i \in DOMAIN b : UniqueKeys(b[i].v.body)
OooMissing(src, ups) ==
    {i \in DOMAIN ups : ups[i].v.kind = "ooo" /\ ~Has(src, ups[i].k)}
C17_CreatesParent ==
    (/\ call = "_dotted_key_merge"
     /\ OooMissing(RuffOf(arg_src).body, RuffOf(arg_up).body) # {}) =>
        /\ lerr = "none"
        /\ \A i \in OooMissing(RuffOf(arg_src).body, RuffOf(arg_up).body) :
              LET e == RuffOf(arg_up).body[i]
                  made == Get(ret.body, e.k)
              IN /\ IsTableLike(made)
                 /\ \A j \in DOMAIN e.v.body :
                       Get(made.body, e.v.body[j].k) = e.v.body[j].v

=============================================================================
